---- MODULE Spec2Model ----
(***************************************************************************)
(* Model of the asynchronous logging pipeline of task_logger               *)
(* (package logger): the leveled emit methods of asyncLogger, the          *)
(* non-blocking enqueue in asyncLogger.log, the background worker          *)
(* asyncLogger.run, With() and Close(); the context fields of derived     *)
(* loggers and the rendering of fields in log(); RequestLogger,            *)
(* FromContext and the no-op logger; generateTraceFlags; and the           *)
(* in-memory TaskRepository (package repository).                          *)
(*                                                                         *)
(* A record is [id, level, len]: id is the order in which the emit calls   *)
(* built their lines, level the level string handed to log(), len the      *)
(* length of the encoded line.  Lengths are in abstract units (one unit is *)
(* the shortest line) so that a small bufferSize shows both a batch that   *)
(* stays under the size threshold and one that reaches it.                 *)
(***************************************************************************)
EXTENDS Integers, Sequences, FiniteSets, TLC

\* ---- bounds of the model ----
MaxBufferSize == 2      \* WithBufferSize values explored: 1..MaxBufferSize
MaxCalls == 4           \* emit calls that pass the threshold, in total
MaxLineLen == 1         \* encoded line lengths explored: 1..MaxLineLen

MaxGenerations == 201   \* correlation tokens generated
MaxTasks == 2           \* tasks created in the repository
MaxParam == 2           \* limit and offset values explored: -1..MaxParam
MaxFields == 3          \* elements in one list of fields
MaxHandlerCalls == 1    \* calls a handler makes on its logger

Producers == {"p1", "p2"}
Derived == {"d1"}
Chain == {"d1", "d2"}      \* a logger derived from a derived logger
Loggers == {"base"} \cup Chain

\* ---- LogLevel constants (part_001:36-44) ----
DebugLevel == 0 - 1
InfoLevel == 0
WarnLevel == 1
ErrorLevel == 2
DPanicLevel == 3
PanicLevel == 4
FatalLevel == 5

Levels == DebugLevel..FatalLevel

LevelNames == {"DEBUG", "INFO", "WARN", "ERROR", "DPANIC", "PANIC", "FATAL"}

\* severity of the level string each method hands to log()
LevelOf(name) ==
    CASE name = "DEBUG" -> DebugLevel
      [] name = "INFO" -> InfoLevel
      [] name = "WARN" -> WarnLevel
      [] name = "ERROR" -> ErrorLevel
      [] name = "DPANIC" -> DPanicLevel
      [] name = "PANIC" -> PanicLevel
      [] name = "FATAL" -> FatalLevel

VARIABLES
    cfgLevel,       \* l.cfg.Level
    isProduction,   \* l.cfg.IsProduction
    bufferSize,     \* l.bufferSize after the options ran
    logChan,        \* the buffered channel: records queued, oldest first
    batch,          \* run's local bytes.Buffer, as the records it holds
    sink,           \* what has been written to l.writer
    stderr,         \* ids of the records whose drop diagnostic was printed
    workerPc,       \* position of run: select, drain, write, return, done
    wret,           \* where run continues after the pending sink write
    cancelled,      \* ctx.Done() is closed: cancel() has been called
    loggers,        \* the asyncLogger values that exist
    wg,             \* counter of each logger value's own sync.WaitGroup
    closePc,        \* position of the Close() caller of each logger
    pc,             \* position of each producer
    cur,            \* the record each producer's emit call is handling
    calls,          \* records built so far
    skipped,        \* method of the latest call that was below the threshold
    exited,         \* os.Exit(1) has run
    accepted,       \* history: ids in the order they entered logChan
    preCancel,      \* history: accepted as it was when cancel() first ran
    drainFrom,      \* history: what run held when it observed ctx.Done()
    terminations,   \* history: times run has returned
    requests,       \* package logger: the atomic counter `requests`
    genPc,          \* generateTraceFlags: idle, or deferred (Add pending)
    flag,           \* the flags string the current generation returns
    generations,    \* history: generations completed
    mu,             \* TaskRepository.mu: the writer and the readers holding it
    counter,        \* TaskRepository.counter
    tasksByID,      \* TaskRepository.tasksByID: id -> task
    tasksByStatus,  \* TaskRepository.tasksByStatus: status -> ids
    allTasksIDs,    \* TaskRepository.allTasksIDs
    rpc,            \* position of each goroutine calling the repository
    rcur,           \* the task a Create call is storing
    rargs,          \* statusFilter, limit, offset of a GetAll call; id of a GetByID
    result,         \* what the goroutine's latest read call returned
    contextFields,  \* l.contextFields of each logger: backing array and len
    derivedFrom,    \* history: the parent and the fields of the With() call
    emit,           \* log()'s local allFields slice while a call builds its line
    line,           \* history: the line each producer's latest log() built
    reqPc,          \* position of each goroutine in the request it serves
    traceparent,    \* the traceparent RequestLogger generated for the request
    ctxLogger,      \* the Logger attached to the request's context, if any
    hlog,           \* the Logger the handler holds: FromContext(ctx).With(...)
    hcalls,         \* history: calls the handler has made on hlog
    tags            \* history: request, message and context fields by record id

vars == <<cfgLevel, isProduction, bufferSize, logChan, batch, sink, stderr,
          workerPc, wret, cancelled, loggers, wg, closePc, pc, cur, calls,
          skipped, exited, accepted, preCancel, drainFrom, terminations,
          requests, genPc, flag, generations,
          mu, counter, tasksByID, tasksByStatus, allTasksIDs, rpc, rcur, rargs,
          result, contextFields, derivedFrom, emit, line,
          reqPc, traceparent, ctxLogger, hlog, hcalls, tags>>

cfgVars == <<cfgLevel, isProduction, bufferSize>>
histVars == <<accepted, preCancel, drainFrom, terminations>>
workerVars == <<batch, sink, workerPc, wret>>
closeVars == <<loggers, wg, closePc>>
producerVars == <<pc, cur, calls, skipped>>
traceVars == <<requests, genPc, flag, generations>>
repoVars == <<mu, counter, tasksByID, tasksByStatus, allTasksIDs, rpc, rcur,
              rargs, result>>

fieldVars == <<contextFields, derivedFrom, emit, line>>
reqVars == <<reqPc, traceparent, ctxLogger, hlog, hcalls, tags>>

\* what the writer's steps leave alone: the package counter, the repository,
\* the context fields of the loggers and the requests being served
outside == <<traceVars, repoVars, fieldVars, reqVars>>

\* everything of the logger
loggerVars == <<cfgVars, logChan, stderr, workerVars, cancelled, closeVars,
                producerVars, exited, histVars, fieldVars, reqVars>>

\* ---- field values (interface{}) ----
StrVal(x) == [kind |-> "string", s |-> x, n |-> 0]
IntVal(x) == [kind |-> "int", s |-> "", n |-> x]
Nil == [kind |-> "nil", s |-> "", n |-> 0]

\* a slice header over its own backing array: cap is Len(arr)
NoSlice == [arr |-> <<>>, len |-> 0]

NoEmit == [logger |-> "", fields |-> <<>>, own |-> FALSE, arr |-> <<>>,
           len |-> 0, copied |-> 0]

NoLine == [logger |-> "", ctx |-> <<>>, fields |-> <<>>, all |-> <<>>,
           text |-> <<>>]

NoRecord == [id |-> 0, level |-> "", len |-> 0]

\* variant: the channel made one slot larger
QueueCap_larger == bufferSize + 2

\* make(chan []byte, l.bufferSize+1)
QueueCap == bufferSize + 1

\* batch.Len()
RECURSIVE BatchLen(_)
BatchLen(b) == IF b = <<>> THEN 0 ELSE Head(b).len + BatchLen(Tail(b))

Ids(s) == {s[i].id : i \in 1..Len(s)}

\* NewAsyncLogger for any Config and any WithBufferSize option: the channel is
\* made, wg.Add(1), go l.run(ctx)
NewAsyncLogger ==
    /\ cfgLevel \in Levels
    /\ isProduction \in BOOLEAN
    /\ bufferSize \in 1..MaxBufferSize
    /\ logChan = <<>>
    /\ batch = <<>>
    /\ sink = <<>>
    /\ stderr = <<>>
    /\ workerPc = "select"
    /\ wret = "select"
    /\ cancelled = FALSE
    /\ loggers = {"base"}
    /\ wg = [l \in Loggers |-> IF l = "base" THEN 1 ELSE 0]
    /\ closePc = [l \in Loggers |-> "none"]
    /\ pc = [p \in Producers |-> "idle"]
    /\ cur = [p \in Producers |-> NoRecord]
    /\ calls = 0
    /\ skipped = ""
    /\ exited = FALSE
    /\ accepted = <<>>
    /\ preCancel = <<>>
    /\ drainFrom = [queued |-> FALSE, batched |-> FALSE]
    /\ terminations = 0
    /\ contextFields = [l \in Loggers |-> NoSlice]
    /\ derivedFrom = [l \in Loggers |-> [parent |-> "", fields |-> <<>>]]
    /\ emit = [p \in Producers |-> NoEmit]
    /\ line = [p \in Producers |-> NoLine]

----
\* ---- producers: the leveled emit methods ----

\* the method's condition held: log() builds the line (part_001:215-238)
BuildLine(p, name, n) ==
    /\ pc[p] = "idle"
    /\ calls < MaxCalls
    /\ calls' = calls + 1
    /\ cur' = [cur EXCEPT ![p] = [id |-> calls + 1, level |-> name, len |-> n]]
    /\ pc' = [pc EXCEPT ![p] = "log"]
    /\ UNCHANGED skipped

\* the method's condition failed: the call does nothing
NoOp(p, name) ==
    /\ pc[p] = "idle"
    /\ skipped' = name
    /\ UNCHANGED <<pc, cur, calls>>

Method(p, name, passes) ==
    /\ ~exited
    /\ \E n \in 1..MaxLineLen :
          IF passes THEN BuildLine(p, name, n) ELSE NoOp(p, name)
    /\ UNCHANGED <<cfgVars, outside, logChan, stderr, workerVars, cancelled, closeVars,
                   exited, histVars>>

Debug(p) == Method(p, "DEBUG", cfgLevel <= DebugLevel)

Info(p) == Method(p, "INFO", cfgLevel <= InfoLevel)

Warn(p) == Method(p, "WARN", cfgLevel <= WarnLevel)

Error(p) == Method(p, "ERROR", cfgLevel <= ErrorLevel)

DPanic(p) == Method(p, "DPANIC", cfgLevel <= DPanicLevel)

Panic(p) == Method(p, "PANIC", cfgLevel <= PanicLevel)

Fatal(p) == Method(p, "FATAL", cfgLevel <= FatalLevel)

\* what follows l.log(...) in the method that called it
AfterLog(name) ==
    IF name \in {"DPANIC", "PANIC", "FATAL"} THEN "post" ELSE "idle"

\* variant: a plain send `l.logChan <- msg` with no default case
log_blocking(p) ==
    /\ ~exited
    /\ pc[p] = "log"
    /\ Len(logChan) < QueueCap
    /\ logChan' = Append(logChan, cur[p])
    /\ accepted' = Append(accepted, cur[p].id)
    /\ pc' = [pc EXCEPT ![p] = AfterLog(cur[p].level)]
    /\ cur' = [cur EXCEPT ![p] = IF AfterLog(cur[p].level) = "idle"
                                    THEN NoRecord ELSE cur[p]]
    /\ UNCHANGED <<cfgVars, outside, stderr, workerVars, cancelled, closeVars, calls,
                   skipped, exited, preCancel, drainFrom, terminations>>

\* variant: the record is dropped as soon as bufferSize records are queued
log_dropEarly(p) ==
    /\ ~exited
    /\ pc[p] = "log"
    /\ IF Len(logChan) < bufferSize
          THEN /\ logChan' = Append(logChan, cur[p])
               /\ accepted' = Append(accepted, cur[p].id)
               /\ UNCHANGED stderr
          ELSE /\ stderr' = Append(stderr, cur[p].id)
               /\ UNCHANGED <<logChan, accepted>>
    /\ pc' = [pc EXCEPT ![p] = AfterLog(cur[p].level)]
    /\ cur' = [cur EXCEPT ![p] = IF AfterLog(cur[p].level) = "idle"
                                    THEN NoRecord ELSE cur[p]]
    /\ UNCHANGED <<cfgVars, outside, workerVars, cancelled, closeVars, calls,
                   skipped, exited, preCancel, drainFrom, terminations>>

\* the select at the end of log(): send, or default with the diagnostic
log(p) ==
    /\ ~exited
    /\ pc[p] = "log"
    /\ IF Len(logChan) < QueueCap
          THEN /\ logChan' = Append(logChan, cur[p])
               /\ accepted' = Append(accepted, cur[p].id)
               /\ UNCHANGED stderr
          ELSE /\ stderr' = Append(stderr, cur[p].id)
               /\ UNCHANGED <<logChan, accepted>>
    /\ pc' = [pc EXCEPT ![p] = AfterLog(cur[p].level)]
    /\ cur' = [cur EXCEPT ![p] = IF AfterLog(cur[p].level) = "idle"
                                    THEN NoRecord ELSE cur[p]]
    /\ UNCHANGED <<cfgVars, outside, workerVars, cancelled, closeVars, calls,
                   skipped, exited, preCancel, drainFrom, terminations>>

\* variant: DPanic panics in production mode too
DPanicPost_always(p) ==
    /\ ~exited
    /\ pc[p] = "post"
    /\ cur[p].level = "DPANIC"
    /\ pc' = [pc EXCEPT ![p] = "panicked"]
    /\ UNCHANGED <<cfgVars, outside, logChan, stderr, workerVars, cancelled, closeVars,
                   cur, calls, skipped, exited, histVars>>

\* DPanic after l.log: panic(msg) unless IsProduction
DPanicPost(p) ==
    /\ ~exited
    /\ pc[p] = "post"
    /\ cur[p].level = "DPANIC"
    /\ IF ~isProduction
          THEN pc' = [pc EXCEPT ![p] = "panicked"] /\ UNCHANGED cur
          ELSE pc' = [pc EXCEPT ![p] = "idle"]
               /\ cur' = [cur EXCEPT ![p] = NoRecord]
    /\ UNCHANGED <<cfgVars, outside, logChan, stderr, workerVars, cancelled, closeVars,
                   calls, skipped, exited, histVars>>

\* variant: Panic, like DPanic, only logs in production mode
PanicPost_likeDPanic(p) ==
    /\ ~exited
    /\ pc[p] = "post"
    /\ cur[p].level = "PANIC"
    /\ pc' = [pc EXCEPT ![p] = IF ~isProduction THEN "panicked" ELSE "idle"]
    /\ UNCHANGED <<cfgVars, outside, logChan, stderr, workerVars, cancelled, closeVars,
                   cur, calls, skipped, exited, histVars>>

\* Panic after l.log: panic(msg)
PanicPost(p) ==
    /\ ~exited
    /\ pc[p] = "post"
    /\ cur[p].level = "PANIC"
    /\ pc' = [pc EXCEPT ![p] = "panicked"]
    /\ UNCHANGED <<cfgVars, outside, logChan, stderr, workerVars, cancelled, closeVars,
                   cur, calls, skipped, exited, histVars>>

\* Fatal after l.log: os.Exit(1)
FatalPost(p) ==
    /\ ~exited
    /\ pc[p] = "post"
    /\ cur[p].level = "FATAL"
    /\ exited' = TRUE
    /\ pc' = [pc EXCEPT ![p] = "exited"]
    /\ UNCHANGED <<cfgVars, outside, logChan, stderr, workerVars, cancelled, closeVars,
                   cur, calls, skipped, histVars>>

----
\* ---- the worker: asyncLogger.run ----

\* flush(): a non-empty batch goes to the sink write, then run continues at ret
FlushTo(b, ret) ==
    IF b # <<>>
       THEN workerPc' = "write" /\ wret' = ret
       ELSE workerPc' = ret /\ wret' = "select"

\* variant: on ctx.Done() run flushes its batch and returns, leaving the queue
RunCancelled_noDrain ==
    /\ ~exited
    /\ workerPc = "select"
    /\ cancelled
    /\ FlushTo(batch, "return")
    /\ drainFrom' = [queued |-> logChan # <<>>, batched |-> batch # <<>>]
    /\ UNCHANGED <<cfgVars, outside, logChan, batch, sink, stderr, cancelled,
                   closeVars, producerVars, exited, accepted, preCancel,
                   terminations>>

\* case <-ctx.Done(): enter the drain loop
RunCancelled ==
    /\ ~exited
    /\ workerPc = "select"
    /\ cancelled
    /\ workerPc' = "drain"
    /\ drainFrom' = [queued |-> logChan # <<>>, batched |-> batch # <<>>]
    /\ UNCHANGED <<cfgVars, outside, logChan, batch, sink, wret, stderr, cancelled,
                   closeVars, producerVars, exited, accepted, preCancel,
                   terminations>>

\* case <-ticker.C: flush()
RunTick ==
    /\ ~exited
    /\ workerPc = "select"
    /\ FlushTo(batch, "select")
    /\ UNCHANGED <<cfgVars, outside, logChan, batch, sink, stderr, cancelled,
                   closeVars, producerVars, exited, histVars>>

\* variant: the size test written with > instead of >=
RunReceive_strict ==
    /\ ~exited
    /\ workerPc = "select"
    /\ logChan # <<>>
    /\ batch' = Append(batch, Head(logChan))
    /\ logChan' = Tail(logChan)
    /\ IF BatchLen(batch') > bufferSize
          THEN FlushTo(batch', "select")
          ELSE UNCHANGED <<workerPc, wret>>
    /\ UNCHANGED <<cfgVars, outside, sink, stderr, cancelled, closeVars, producerVars,
                   exited, histVars>>

\* case msg := <-l.logChan: batch.Write(msg); flush at the size threshold
RunReceive ==
    /\ ~exited
    /\ workerPc = "select"
    /\ logChan # <<>>
    /\ batch' = Append(batch, Head(logChan))
    /\ logChan' = Tail(logChan)
    /\ IF BatchLen(batch') >= bufferSize
          THEN FlushTo(batch', "select")
          ELSE UNCHANGED <<workerPc, wret>>
    /\ UNCHANGED <<cfgVars, outside, sink, stderr, cancelled, closeVars, producerVars,
                   exited, histVars>>

\* drain loop, case msg := <-l.logChan: batch.Write(msg)
DrainReceive ==
    /\ ~exited
    /\ workerPc = "drain"
    /\ logChan # <<>>
    /\ batch' = Append(batch, Head(logChan))
    /\ logChan' = Tail(logChan)
    /\ UNCHANGED <<cfgVars, outside, sink, stderr, workerPc, wret, cancelled, closeVars,
                   producerVars, exited, histVars>>

\* drain loop, default: flush(); return
DrainDefault ==
    /\ ~exited
    /\ workerPc = "drain"
    /\ logChan = <<>>
    /\ FlushTo(batch, "return")
    /\ UNCHANGED <<cfgVars, outside, logChan, batch, sink, stderr, cancelled, closeVars,
                   producerVars, exited, histVars>>

\* l.writer.Writer().Write(batch.Bytes()) completes; batch.Reset()
SinkWrite ==
    /\ ~exited
    /\ workerPc = "write"
    /\ sink' = sink \o batch
    /\ batch' = <<>>
    /\ workerPc' = wret
    /\ wret' = "select"
    /\ UNCHANGED <<cfgVars, outside, logChan, stderr, cancelled, closeVars, producerVars,
                   exited, histVars>>

\* the deferred calls of run: ticker.Stop(), l.wg.Done()
RunReturn ==
    /\ ~exited
    /\ workerPc = "return"
    /\ workerPc' = "done"
    /\ wg' = [wg EXCEPT !["base"] = wg["base"] - 1]
    /\ terminations' = terminations + 1
    /\ UNCHANGED <<cfgVars, outside, logChan, batch, sink, wret, stderr, cancelled,
                   loggers, closePc, producerVars, exited, accepted,
                   preCancel, drainFrom>>

----
\* ---- cancellation, With, Close ----

\* cancel() of the context passed to NewAsyncLogger; a repeated call changes
\* nothing
Cancel ==
    /\ ~exited
    /\ cancelled' = TRUE
    /\ preCancel' = IF cancelled THEN preCancel ELSE accepted
    /\ UNCHANGED <<cfgVars, outside, logChan, stderr, workerVars, closeVars,
                   producerVars, exited, accepted, drainFrom, terminations>>

\* the elements of a slice
SliceOf(c) == SubSeq(c.arr, 1, c.len)

\* n unused slots of a fresh backing array
Pad(n) == [i \in 1..n |-> Nil]

\* capacity append() gives the array it allocates when newLen elements do not
\* fit in oldCap (capacities below 256 elements: doubled, or newLen when that
\* is more; a 16-byte element makes every such size an allocation size)
GrowCap(oldCap, newLen) ==
    IF newLen > 2 * oldCap THEN newLen ELSE 2 * oldCap

\* variant: the new fields are placed before the parent's
With_newFirst(parent, child, fields) ==
    /\ ~exited
    /\ parent \in loggers
    /\ child \in Loggers \ loggers
    /\ loggers' = loggers \cup {child}
    /\ wg' = [wg EXCEPT ![child] = wg[parent]]
    /\ LET n == contextFields[parent].len
           k == Len(fields)
           newCap == IF k = 0 THEN n ELSE GrowCap(n, n + k)
       IN  contextFields' = [contextFields EXCEPT ![child] =
               [arr |-> fields \o SliceOf(contextFields[parent])
                           \o Pad(newCap - n - k),
                len |-> n + k]]
    /\ derivedFrom' = [derivedFrom EXCEPT ![child] =
                          [parent |-> parent, fields |-> fields]]
    /\ UNCHANGED <<cfgVars, traceVars, repoVars, reqVars, emit, line, logChan,
                   stderr, workerVars, cancelled, closePc, producerVars, exited,
                   histVars>>

\* With: newLogger := *l copies every field of the parent, wg included; its
\* contextFields become a fresh array of len(l.contextFields) elements, the
\* parent's elements copied in, and the new fields appended (which allocates
\* again unless there are none)
With(parent, child, fields) ==
    /\ ~exited
    /\ parent \in loggers
    /\ child \in Loggers \ loggers
    /\ loggers' = loggers \cup {child}
    /\ wg' = [wg EXCEPT ![child] = wg[parent]]
    /\ LET n == contextFields[parent].len
           k == Len(fields)
           newCap == IF k = 0 THEN n ELSE GrowCap(n, n + k)
       IN  contextFields' = [contextFields EXCEPT ![child] =
               [arr |-> SliceOf(contextFields[parent]) \o fields
                           \o Pad(newCap - n - k),
                len |-> n + k]]
    /\ derivedFrom' = [derivedFrom EXCEPT ![child] =
                          [parent |-> parent, fields |-> fields]]
    /\ UNCHANGED <<cfgVars, traceVars, repoVars, reqVars, emit, line, logChan,
                   stderr, workerVars, cancelled, closePc, producerVars, exited,
                   histVars>>

----
\* ---- log(): the fields of the line ----

\* appendValue: a string as it is, an int through strconv.Itoa, anything else
\* through fmt's %v
appendValue(value) ==
    CASE value.kind = "string" -> value.s
      [] value.kind = "int" -> ToString(value.n)
      [] OTHER -> "<nil>"

\* the loop over allFields from index i (counted from 1): a space, then the
\* key and "=" if the element is a string, then the value if there is one
RECURSIVE RenderFrom(_, _)
RenderFrom(allFields, i) ==
    IF i > Len(allFields)
       THEN <<>>
       ELSE <<" ">>
            \o (IF allFields[i].kind # "string"
                   THEN <<>>
                   ELSE <<allFields[i].s, "=">>
                        \o (IF i + 1 <= Len(allFields)
                               THEN <<appendValue(allFields[i + 1])>>
                               ELSE <<>>))
            \o RenderFrom(allFields, i + 2)

\* variant: the loop stops before an element that has no partner
Render_pairsOnly(allFields) ==
    RenderFrom(SubSeq(allFields, 1, 2 * (Len(allFields) \div 2)), 1)

\* the pieces written to the strings.Builder for the fields
Render(allFields) == RenderFrom(allFields, 1)

\* Info(msg, fields...) on logger l passes the threshold and log() reaches
\* allFields := append(l.contextFields, fields...): with room behind the
\* context fields the new slice shares the logger's array and the fields are
\* copied into it one by one; without room a new array is made
logAppend(p, l, fields) ==
    /\ ~exited
    /\ pc[p] = "idle"
    /\ l \in loggers
    /\ cfgLevel <= InfoLevel
    /\ calls < MaxCalls
    /\ calls' = calls + 1
    /\ cur' = [cur EXCEPT ![p] = [id |-> calls + 1, level |-> "INFO", len |-> 1]]
    /\ LET c == contextFields[l]
           k == Len(fields)
       IN  IF c.len + k <= Len(c.arr)
              THEN /\ emit' = [emit EXCEPT ![p] =
                          [logger |-> l, fields |-> fields, own |-> FALSE,
                           arr |-> <<>>, len |-> c.len + k, copied |-> 0]]
                   /\ pc' = [pc EXCEPT ![p] = IF k = 0 THEN "render" ELSE "append"]
              ELSE /\ emit' = [emit EXCEPT ![p] =
                          [logger |-> l, fields |-> fields, own |-> TRUE,
                           arr |-> SliceOf(c) \o fields, len |-> c.len + k,
                           copied |-> k]]
                   /\ pc' = [pc EXCEPT ![p] = "render"]
    /\ line' = [line EXCEPT ![p] = NoLine]
    /\ UNCHANGED <<cfgVars, traceVars, repoVars, reqVars, contextFields, derivedFrom,
                   logChan, stderr, workerVars, cancelled, closeVars, skipped,
                   exited, histVars>>

\* append copies the next field into the array it shares with the logger
logCopy(p) ==
    /\ ~exited
    /\ pc[p] = "append"
    /\ LET e == emit[p]
           l == e.logger
           slot == e.len - Len(e.fields) + e.copied + 1
       IN  /\ contextFields' = [contextFields EXCEPT
                   ![l].arr[slot] = e.fields[e.copied + 1]]
           /\ emit' = [emit EXCEPT ![p].copied = e.copied + 1]
           /\ pc' = [pc EXCEPT ![p] =
                  IF e.copied + 1 = Len(e.fields) THEN "render" ELSE "append"]
    /\ UNCHANGED <<cfgVars, traceVars, repoVars, reqVars, derivedFrom, line, logChan,
                   stderr, workerVars, cancelled, closeVars, cur, calls,
                   skipped, exited, histVars>>

\* the elements allFields holds now
AllFields(e) ==
    IF e.own THEN e.arr ELSE SubSeq(contextFields[e.logger].arr, 1, e.len)

\* log() writes level, message and the fields of allFields into the builder
logRender(p) ==
    /\ ~exited
    /\ pc[p] = "render"
    /\ line' = [line EXCEPT ![p] =
          [logger |-> emit[p].logger,
           ctx |-> SliceOf(contextFields[emit[p].logger]),
           fields |-> emit[p].fields,
           all |-> AllFields(emit[p]),
           text |-> <<"INFO", " ", "msg">> \o Render(AllFields(emit[p]))
                       \o <<"\n">>]]
    /\ emit' = [emit EXCEPT ![p] = NoEmit]
    /\ pc' = [pc EXCEPT ![p] = "log"]
    /\ UNCHANGED <<cfgVars, traceVars, repoVars, reqVars, contextFields, derivedFrom,
                   logChan, stderr, workerVars, cancelled, closeVars, cur,
                   calls, skipped, exited, histVars>>

\* Close is called: l.wg.Wait() begins
CloseCall(l) ==
    /\ ~exited
    /\ l \in loggers
    /\ closePc[l] = "none"
    /\ closePc' = [closePc EXCEPT ![l] = "waiting"]
    /\ UNCHANGED <<cfgVars, outside, logChan, stderr, workerVars, cancelled, loggers, wg,
                   producerVars, exited, histVars>>

\* variant: Close returns without waiting
CloseReturn_noWait(l) ==
    /\ ~exited
    /\ closePc[l] = "waiting"
    /\ closePc' = [closePc EXCEPT ![l] = "returned"]
    /\ UNCHANGED <<cfgVars, outside, logChan, stderr, workerVars, cancelled, loggers, wg,
                   producerVars, exited, histVars>>

\* l.wg.Wait() returns once the counter of this logger's WaitGroup is zero
CloseReturn(l) ==
    /\ ~exited
    /\ closePc[l] = "waiting"
    /\ wg[l] = 0
    /\ closePc' = [closePc EXCEPT ![l] = "returned"]
    /\ UNCHANGED <<cfgVars, outside, logChan, stderr, workerVars, cancelled, loggers, wg,
                   producerVars, exited, histVars>>

----
\* ---- correlation tokens: generateTraceFlags ----

\* requests.Load()%100 == 0: one generation in SampleEvery is flagged
SampleEvery == 100

\* var requests = atomic.Int64{}
PackageVars ==
    /\ requests = 0
    /\ genPc = "idle"
    /\ flag = ""
    /\ generations = 0

\* variant: the counter is incremented before the check
TraceFlagsCheck_incrementFirst ==
    /\ genPc = "idle"
    /\ generations < MaxGenerations
    /\ flag' = IF (requests + 1) % SampleEvery = 0 THEN "01" ELSE "00"
    /\ genPc' = "deferred"
    /\ UNCHANGED <<requests, generations, repoVars, loggerVars>>

\* generateTraceFlags up to its return statement: the check
TraceFlagsCheck ==
    /\ genPc = "idle"
    /\ generations < MaxGenerations
    /\ flag' = IF requests % SampleEvery = 0 THEN "01" ELSE "00"
    /\ genPc' = "deferred"
    /\ UNCHANGED <<requests, generations, repoVars, loggerVars>>

\* the deferred func of generateTraceFlags: requests.Add(1)
TraceFlagsDeferred ==
    /\ genPc = "deferred"
    /\ requests' = requests + 1
    /\ generations' = generations + 1
    /\ genPc' = "idle"
    /\ UNCHANGED <<flag, repoVars, loggerVars>>

----
\* ---- the task repository ----

Goroutines == {"g1", "g2"}
Statuses == {"new", "done"}
\* the id strings a GetByID caller passes, as strconv.ParseInt reads them:
\* one that is not a number, and the numbers 0..MaxTasks
IdStrings == {[ok |-> FALSE, n |-> 0]} \cup {[ok |-> TRUE, n |-> i] : i \in 0..MaxTasks}
Params == (0 - 1)..MaxParam

NoTask == [id |-> 0, status |-> ""]
NoArgs == [filter |-> "", limit |-> 0, offset |-> 0,
           id |-> [ok |-> FALSE, n |-> 0]]
NoResult == [kind |-> "", tasks |-> <<>>]

\* NewTaskRepository
NewTaskRepository ==
    /\ mu = [writer |-> "", readers |-> {}]
    /\ counter = 0
    /\ tasksByID = <<>>
    /\ tasksByStatus = [s \in Statuses |-> <<>>]
    /\ allTasksIDs = <<>>
    /\ rpc = [g \in Goroutines |-> "idle"]
    /\ rcur = [g \in Goroutines |-> NoTask]
    /\ rargs = [g \in Goroutines |-> NoArgs]
    /\ result = [g \in Goroutines |-> NoResult]

\* r.mu.Lock() of Create: waits until nobody holds the mutex
CreateLock(g, status) ==
    /\ rpc[g] = "idle"
    /\ counter < MaxTasks
    /\ mu.writer = ""
    /\ mu.readers = {}
    /\ mu' = [mu EXCEPT !.writer = g]
    /\ rpc' = [rpc EXCEPT ![g] = "count"]
    /\ rcur' = [rcur EXCEPT ![g] = [id |-> 0, status |-> status]]
    /\ result' = [result EXCEPT ![g] = NoResult]
    /\ UNCHANGED <<counter, tasksByID, tasksByStatus, allTasksIDs, rargs,
                   traceVars, loggerVars>>

\* r.counter++; t.ID = r.counter
CreateCount(g) ==
    /\ rpc[g] = "count"
    /\ counter' = counter + 1
    /\ rcur' = [rcur EXCEPT ![g].id = counter + 1]
    /\ rpc' = [rpc EXCEPT ![g] = "byID"]
    /\ UNCHANGED <<mu, tasksByID, tasksByStatus, allTasksIDs, rargs, result,
                   traceVars, loggerVars>>

\* r.tasksByID[t.ID] = t
CreateByID(g) ==
    /\ rpc[g] = "byID"
    /\ tasksByID' = [i \in DOMAIN tasksByID \cup {rcur[g].id} |->
                        IF i = rcur[g].id THEN rcur[g] ELSE tasksByID[i]]
    /\ rpc' = [rpc EXCEPT ![g] = "byStatus"]
    /\ UNCHANGED <<mu, counter, tasksByStatus, allTasksIDs, rcur, rargs, result,
                   traceVars, loggerVars>>

\* r.tasksByStatus[t.Status] = append(r.tasksByStatus[t.Status], t.ID)
CreateByStatus(g) ==
    /\ rpc[g] = "byStatus"
    /\ tasksByStatus' = [tasksByStatus EXCEPT ![rcur[g].status] =
                            Append(@, rcur[g].id)]
    /\ rpc' = [rpc EXCEPT ![g] = "all"]
    /\ UNCHANGED <<mu, counter, tasksByID, allTasksIDs, rcur, rargs, result,
                   traceVars, loggerVars>>

\* r.allTasksIDs = append(r.allTasksIDs, t.ID)
CreateAll(g) ==
    /\ rpc[g] = "all"
    /\ allTasksIDs' = Append(allTasksIDs, rcur[g].id)
    /\ rpc' = [rpc EXCEPT ![g] = "unlock"]
    /\ UNCHANGED <<mu, counter, tasksByID, tasksByStatus, rcur, rargs, result,
                   traceVars, loggerVars>>

\* return t, nil with the deferred r.mu.Unlock()
CreateReturn(g) ==
    /\ rpc[g] = "unlock"
    /\ mu' = [mu EXCEPT !.writer = ""]
    /\ rpc' = [rpc EXCEPT ![g] = "idle"]
    /\ result' = [result EXCEPT ![g] = [kind |-> "created", tasks |-> <<rcur[g]>>]]
    /\ rcur' = [rcur EXCEPT ![g] = NoTask]
    /\ UNCHANGED <<counter, tasksByID, tasksByStatus, allTasksIDs, rargs,
                   traceVars, loggerVars>>

\* variant: the read lock is taken without waiting for the writer
RLock_noWait(g, next, args) ==
    /\ rpc[g] = "idle"
    /\ mu' = [mu EXCEPT !.readers = @ \cup {g}]
    /\ rpc' = [rpc EXCEPT ![g] = next]
    /\ rargs' = [rargs EXCEPT ![g] = args]
    /\ result' = [result EXCEPT ![g] = NoResult]
    /\ UNCHANGED <<counter, tasksByID, tasksByStatus, allTasksIDs, rcur,
                   traceVars, loggerVars>>

\* r.mu.RLock() of GetByID and GetAll: waits while a writer holds the mutex
RLock(g, next, args) ==
    /\ rpc[g] = "idle"
    /\ mu.writer = ""
    /\ mu' = [mu EXCEPT !.readers = @ \cup {g}]
    /\ rpc' = [rpc EXCEPT ![g] = next]
    /\ rargs' = [rargs EXCEPT ![g] = args]
    /\ result' = [result EXCEPT ![g] = NoResult]
    /\ UNCHANGED <<counter, tasksByID, tasksByStatus, allTasksIDs, rcur,
                   traceVars, loggerVars>>

\* GetByID is called with the id string
GetByIDLock(g, id) ==
    RLock(g, "getByID", [NoArgs EXCEPT !.id = id])

\* GetByID under the read lock: ParseInt, the map lookup, the return with the
\* deferred RUnlock
GetByID(g) ==
    /\ rpc[g] = "getByID"
    /\ result' = [result EXCEPT ![g] =
          IF ~rargs[g].id.ok THEN [kind |-> "invalid", tasks |-> <<>>]
          ELSE IF rargs[g].id.n \notin DOMAIN tasksByID
                  THEN [kind |-> "notFound", tasks |-> <<>>]
                  ELSE [kind |-> "task", tasks |-> <<tasksByID[rargs[g].id.n]>>]]
    /\ mu' = [mu EXCEPT !.readers = @ \ {g}]
    /\ rpc' = [rpc EXCEPT ![g] = "idle"]
    /\ rargs' = [rargs EXCEPT ![g] = NoArgs]
    /\ UNCHANGED <<counter, tasksByID, tasksByStatus, allTasksIDs, rcur,
                   traceVars, loggerVars>>

\* GetAll is called with statusFilter, limit, offset
GetAllLock(g, filter, limit, offset) ==
    RLock(g, "getAll", [NoArgs EXCEPT !.filter = filter, !.limit = limit,
                                       !.offset = offset])

\* taskIDs[lo:hi] with Go's zero-based bounds, for 0 <= lo <= hi <= len
Slice(ids, lo, hi) == [i \in 1..(hi - lo) |-> ids[lo + i]]

\* the body of GetAll: the id list, the offset test, end, the slice expression
\* (which panics when offset < 0 or end < offset) and the lookup of each id
GetAllBody(byID, byStatus, allIDs, filter, limit, offset) ==
    LET taskIDs == IF filter # "" THEN byStatus[filter] ELSE allIDs
        sum == offset + limit
        end == IF sum > Len(taskIDs) THEN Len(taskIDs) ELSE sum
    IN  IF offset >= Len(taskIDs)
           THEN [kind |-> "tasks", tasks |-> <<>>]
           ELSE IF offset < 0 \/ end < offset
                   THEN [kind |-> "panic", tasks |-> <<>>]
                   ELSE [kind |-> "tasks",
                         tasks |-> [i \in 1..(end - offset) |->
                                       byID[Slice(taskIDs, offset, end)[i]]]]

\* GetAll under the read lock, up to its return or panic; the deferred RUnlock
\* runs in both cases
GetAll(g) ==
    /\ rpc[g] = "getAll"
    /\ result' = [result EXCEPT ![g] =
          GetAllBody(tasksByID, tasksByStatus, allTasksIDs,
                     rargs[g].filter, rargs[g].limit, rargs[g].offset)]
    /\ mu' = [mu EXCEPT !.readers = @ \ {g}]
    /\ rpc' = [rpc EXCEPT ![g] = "idle"]
    /\ rargs' = [rargs EXCEPT ![g] = NoArgs]
    /\ UNCHANGED <<counter, tasksByID, tasksByStatus, allTasksIDs, rcur,
                   traceVars, loggerVars>>

----
\* ---- requests: RequestLogger, FromContext and the no-op logger ----

\* a Logger value as a handler sees it: its variant and its context fields
NoLogger == [kind |-> "", ctx |-> <<>>]

\* NewNoOpLogger
NewNoOpLogger == [kind |-> "noop", ctx |-> <<>>]

\* the random trace and span ids of a traceparent, as one token
TraceIDs == {"a", "b"}

\* the methods the handlers call on the logger they hold
HandlerOps == {"DEBUG", "INFO", "ERROR"}

\* every method of the Logger interface
LoggerOps == LevelNames \cup {"With", "Close"}

\* no request is being served
NoRequests ==
    /\ reqPc = [p \in Producers |-> "none"]
    /\ traceparent = [p \in Producers |-> ""]
    /\ ctxLogger = [p \in Producers |-> NoLogger]
    /\ hlog = [p \in Producers |-> NoLogger]
    /\ hcalls = [p \in Producers |-> 0]
    /\ tags = <<>>

\* variant: a context without a logger yields the base logger
FromContext_base(ctx) ==
    IF ctx.kind # "" THEN ctx ELSE [kind |-> "async", ctx |-> <<>>]

\* FromContext: the attached Logger, or the no-op logger when none is attached
FromContext(ctx) ==
    IF ctx.kind # "" THEN ctx ELSE NewNoOpLogger

\* l.With(fields...) as a value: asyncLogger.With gives a logger with the
\* fields appended, noOpLogger.With returns its receiver
WithOf(l, fields) ==
    IF l.kind = "noop" THEN l ELSE [l EXCEPT !.ctx = @ \o fields]

\* RequestLogger calls generateTraceparent: random ids, and generateTraceFlags
\* up to its return value (requests.Load()%100)
ReqTraceparent(p, t) ==
    /\ ~exited
    /\ reqPc[p] = "none"
    /\ pc[p] = "idle"
    /\ traceparent' = [traceparent EXCEPT ![p] =
          "00-" \o t \o "-"
                \o (IF requests % SampleEvery = 0 THEN "01" ELSE "00")]
    /\ reqPc' = [reqPc EXCEPT ![p] = "flags"]
    /\ UNCHANGED <<cfgVars, traceVars, repoVars, fieldVars, ctxLogger, hlog,
                   hcalls, tags, logChan, stderr, workerVars, cancelled,
                   closeVars, producerVars, exited, histVars>>

\* the deferred requests.Add(1), reqLogger := baseLogger.With("traceparent",
\* traceparent), and reqLogger.Info("request started", ...) up to the select
ReqStart(p) ==
    /\ ~exited
    /\ reqPc[p] = "flags"
    /\ requests' = requests + 1
    /\ generations' = generations + 1
    /\ ctxLogger' = [ctxLogger EXCEPT ![p] =
          WithOf([kind |-> "async", ctx |-> <<>>],
                 <<"traceparent", traceparent[p]>>)]
    /\ IF cfgLevel <= InfoLevel
          THEN /\ BuildLine(p, "INFO", 1)
               /\ tags' = Append(tags, [req |-> p, msg |-> "request started",
                                        ctx |-> ctxLogger'[p].ctx])
          ELSE /\ NoOp(p, "INFO")
               /\ UNCHANGED tags
    /\ reqPc' = [reqPc EXCEPT ![p] = "started"]
    /\ UNCHANGED <<cfgVars, genPc, flag, repoVars, fieldVars, traceparent, hlog,
                   hcalls, logChan, stderr, workerVars, cancelled, closeVars,
                   exited, histVars>>

\* ctx := NewContext(r.Context(), reqLogger); next.ServeHTTP: the handler
\* takes its logger with FromContext(ctx).With("where", "handler")
ReqServe(p) ==
    /\ ~exited
    /\ reqPc[p] = "started"
    /\ pc[p] = "idle"
    /\ hlog' = [hlog EXCEPT ![p] =
          WithOf(FromContext(ctxLogger[p]), <<"where", "handler">>)]
    /\ reqPc' = [reqPc EXCEPT ![p] = "handler"]
    /\ UNCHANGED <<cfgVars, traceVars, repoVars, fieldVars, traceparent,
                   ctxLogger, hcalls, tags, logChan, stderr, workerVars,
                   cancelled, closeVars, producerVars, exited, histVars>>

\* a handler is called with a context to which no logger was attached
DirectCall(p) ==
    /\ ~exited
    /\ reqPc[p] = "none"
    /\ pc[p] = "idle"
    /\ hlog' = [hlog EXCEPT ![p] =
          WithOf(FromContext(ctxLogger[p]), <<"where", "handler">>)]
    /\ reqPc' = [reqPc EXCEPT ![p] = "handler"]
    /\ UNCHANGED <<cfgVars, traceVars, repoVars, fieldVars, traceparent,
                   ctxLogger, hcalls, tags, logChan, stderr, workerVars,
                   cancelled, closeVars, producerVars, exited, histVars>>

\* the handler calls a method of the logger it holds: on the no-op logger
\* every method has an empty body (With returns the receiver); on the
\* asyncLogger the handler's emit runs up to the select
LoggerCall(p, op) ==
    /\ ~exited
    /\ reqPc[p] = "handler"
    /\ pc[p] = "idle"
    /\ hcalls[p] < MaxHandlerCalls
    /\ hcalls' = [hcalls EXCEPT ![p] = @ + 1]
    /\ IF hlog[p].kind = "noop"
          THEN UNCHANGED <<producerVars, tags>>
          ELSE /\ op \in HandlerOps
               /\ IF cfgLevel <= LevelOf(op)
                     THEN /\ BuildLine(p, op, 1)
                          /\ tags' = Append(tags, [req |-> p, msg |-> "handler",
                                                   ctx |-> hlog[p].ctx])
                     ELSE /\ NoOp(p, op)
                          /\ UNCHANGED tags
    /\ UNCHANGED <<cfgVars, traceVars, repoVars, fieldVars, reqPc, traceparent,
                   ctxLogger, hlog, logChan, stderr, workerVars, cancelled,
                   closeVars, exited, histVars>>

\* next.ServeHTTP returns and reqLogger.Info("request completed", ...) runs up
\* to the select
ReqComplete(p) ==
    /\ ~exited
    /\ reqPc[p] = "handler"
    /\ ctxLogger[p].kind # ""
    /\ pc[p] = "idle"
    /\ IF cfgLevel <= InfoLevel
          THEN /\ BuildLine(p, "INFO", 1)
               /\ tags' = Append(tags, [req |-> p, msg |-> "request completed",
                                        ctx |-> ctxLogger[p].ctx])
          ELSE /\ NoOp(p, "INFO")
               /\ UNCHANGED tags
    /\ reqPc' = [reqPc EXCEPT ![p] = "done"]
    /\ UNCHANGED <<cfgVars, traceVars, repoVars, fieldVars, traceparent,
                   ctxLogger, hlog, hcalls, logChan, stderr, workerVars,
                   cancelled, closeVars, exited, histVars>>

\* the handler called without a logger in its context returns
DirectReturn(p) ==
    /\ ~exited
    /\ reqPc[p] = "handler"
    /\ ctxLogger[p].kind = ""
    /\ reqPc' = [reqPc EXCEPT ![p] = "done"]
    /\ UNCHANGED <<cfgVars, traceVars, repoVars, fieldVars, traceparent,
                   ctxLogger, hlog, hcalls, tags, logChan, stderr, workerVars,
                   cancelled, closeVars, producerVars, exited, histVars>>

----
\* ---- the writer under the configuration loadConfig gives by default ----
\* (LOG_LEVEL unset: ParseLevel returns InfoLevel; APP_ENV unset: not production)

Init ==
    /\ NewAsyncLogger
    /\ PackageVars
    /\ NewTaskRepository
    /\ NoRequests
    /\ cfgLevel = InfoLevel
    /\ isProduction = FALSE

Next ==
    \/ \E p \in Producers : Info(p)
    \/ \E p \in Producers : log(p)
    \/ RunCancelled
    \/ RunTick
    \/ RunReceive
    \/ DrainReceive
    \/ DrainDefault
    \/ SinkWrite
    \/ RunReturn
    \/ Cancel
    \/ \E l \in Loggers : \E c \in Derived : With(l, c, <<>>)
    \/ \E l \in Loggers : CloseCall(l)
    \/ \E l \in Loggers : CloseReturn(l)

Spec == Init /\ [][Next]_vars

\* ---- every threshold, both modes, every emit method ----

\* one goroutine makes the calls
Caller == {"p1"}

InitLevels ==
    /\ NewAsyncLogger
    /\ PackageVars
    /\ NewTaskRepository
    /\ NoRequests

NextLevels ==
    \/ \E p \in Caller : Debug(p)
    \/ \E p \in Caller : Info(p)
    \/ \E p \in Caller : Warn(p)
    \/ \E p \in Caller : Error(p)
    \/ \E p \in Caller : DPanic(p)
    \/ \E p \in Caller : Panic(p)
    \/ \E p \in Caller : Fatal(p)
    \/ \E p \in Caller : log(p)
    \/ \E p \in Caller : DPanicPost(p)
    \/ \E p \in Caller : PanicPost(p)
    \/ \E p \in Caller : FatalPost(p)
    \/ RunTick
    \/ RunReceive
    \/ SinkWrite

SpecLevels == InitLevels /\ [][NextLevels]_vars

\* ---- the writer with the scheduling Go gives its goroutines: run keeps
\* taking steps, the ticker keeps firing, a Wait whose counter is zero returns
Fairness ==
    /\ WF_vars(RunCancelled)
    /\ WF_vars(RunTick)
    /\ WF_vars(RunReceive)
    /\ WF_vars(DrainReceive)
    /\ WF_vars(DrainDefault)
    /\ WF_vars(SinkWrite)
    /\ WF_vars(RunReturn)
    /\ \A l \in Loggers : WF_vars(CloseReturn(l))

FairSpec == Spec /\ Fairness

\* ---- sequential generations of correlation tokens ----

InitTrace == Init

NextTrace ==
    \/ TraceFlagsCheck
    \/ TraceFlagsDeferred

SpecTrace == InitTrace /\ [][NextTrace]_vars

\* ---- goroutines calling the repository concurrently ----

InitRepo == Init

NextRepo ==
    \/ \E g \in Goroutines : \E st \in Statuses : CreateLock(g, st)
    \/ \E g \in Goroutines : CreateCount(g)
    \/ \E g \in Goroutines : CreateByID(g)
    \/ \E g \in Goroutines : CreateByStatus(g)
    \/ \E g \in Goroutines : CreateAll(g)
    \/ \E g \in Goroutines : CreateReturn(g)
    \/ \E g \in Goroutines : \E id \in IdStrings : GetByIDLock(g, id)
    \/ \E g \in Goroutines : GetByID(g)
    \/ \E g \in Goroutines : \E f \in Statuses \cup {""} :
          \E limit, offset \in Params : GetAllLock(g, f, limit, offset)
    \/ \E g \in Goroutines : GetAll(g)

SpecRepo == InitRepo /\ [][NextRepo]_vars

\* ---- one caller, fields of every shape ----
\* (a logger derived from the base logger has no room behind its context
\* fields, so append in log() allocates or, without fields, copies nothing)

\* field lists of up to MaxFields elements: string and non-string elements
Elems == {StrVal("k"), IntVal(7)}

FieldLists == UNION {[1..n -> Elems] : n \in 0..MaxFields}

InitRender == Init

NextRender ==
    \/ \E l \in Loggers : \E c \in Derived : \E f \in FieldLists : With(l, c, f)
    \/ \E p \in Caller : \E l \in Loggers : \E f \in FieldLists :
          logAppend(p, l, f)
    \/ \E p \in Caller : logRender(p)
    \/ \E p \in Caller : log(p)

SpecRender == InitRender /\ [][NextRender]_vars

\* ---- concurrent callers on a chain of derived loggers ----

\* With(key) or With(key, value), the fields named after the new logger
WithArgs(c) == {<<StrVal(c)>>, <<StrVal(c), StrVal(c)>>}

\* call-site fields named after the caller: none, a key, or a key and a value
CallArgs(p) == {<<>>, <<StrVal(p)>>, <<StrVal(p), StrVal(p)>>}

InitFields == Init

NextFields ==
    \/ \E l \in Loggers : \E c \in Chain : \E f \in WithArgs(c) : With(l, c, f)
    \/ \E p \in Producers : \E l \in Loggers : \E f \in CallArgs(p) :
          logAppend(p, l, f)
    \/ \E p \in Producers : logCopy(p)
    \/ \E p \in Producers : logRender(p)
    \/ \E p \in Producers : log(p)

SpecFields == InitFields /\ [][NextFields]_vars

\* ---- a request served through RequestLogger and a handler called without
\* ---- it, while the writer runs and is shut down ----

InitRequests == Init

NextRequests ==
    \/ \E p \in Caller : \E t \in TraceIDs : ReqTraceparent(p, t)
    \/ \E p \in Caller : ReqStart(p)
    \/ \E p \in Caller : ReqServe(p)
    \/ \E p \in Producers \ Caller : DirectCall(p)
    \/ \E p \in Producers : \E op \in LoggerOps : LoggerCall(p, op)
    \/ \E p \in Caller : ReqComplete(p)
    \/ \E p \in Producers \ Caller : DirectReturn(p)
    \/ \E p \in Caller : log(p)
    \/ RunCancelled
    \/ RunTick
    \/ RunReceive
    \/ DrainReceive
    \/ DrainDefault
    \/ SinkWrite
    \/ RunReturn
    \/ Cancel
    \/ CloseCall("base")
    \/ CloseReturn("base")

SpecRequests == InitRequests /\ [][NextRequests]_vars

----
\* ---- properties ----

\* C1: an emit never blocks the producer: whenever a producer stands at the
\* select that ends log(), that step can be taken at once, whatever the queue
\* holds and wherever the worker is.
C1_EnqueueNeverBlocks ==
    \A p \in Producers : pc[p] = "log" => ENABLED log(p)

\* a producer at the select while the queue is full and the worker is stalled
\* in the sink write
C1_Witness ==
    \E p \in Producers :
        /\ pc[p] = "log"
        /\ Len(logChan) = QueueCap
        /\ workerPc = "write"

\* C2 as stated: the queue never holds more records than the WithBufferSize
\* value.
C2_QueueWithinBufferSize ==
    Len(logChan) <= bufferSize

\* C2 amended: the queue never holds more than bufferSize + 1 records, and an
\* emit arriving when it holds bufferSize + 1 is dropped with one diagnostic
\* and not queued.
C2_QueueWithinChannelCap ==
    /\ [](Len(logChan) <= bufferSize + 1)
    /\ [][\A p \in Producers :
            (pc[p] = "log" /\ pc'[p] # "log" /\ Len(logChan) = bufferSize + 1)
            => /\ logChan' = logChan
               /\ stderr' = Append(stderr, cur[p].id)]_vars

\* the queue holds bufferSize + 1 records and an emit has been rejected
C2_Witness ==
    /\ Len(logChan) = bufferSize + 1
    /\ stderr # <<>>

\* ids of the lines in the sink, in sink order
SinkIds == [i \in 1..Len(sink) |-> sink[i].id]

\* how many lines of s carry the id
Count(id, s) == Cardinality({i \in 1..Len(s) : s[i].id = id})

Range(f) == {f[i] : i \in 1..Len(f)}

\* C3 as stated, at the end of a run: once the worker has terminated and every
\* emit has returned with no record dropped, the sink holds exactly the
\* accepted records, in the order in which they entered the queue.
C3_SinkReceivesAllInOrder ==
    (/\ workerPc = "done"
     /\ stderr = <<>>
     /\ \A p \in Producers : pc[p] = "idle")
    => SinkIds = accepted

\* C4: once cancellation has been raised and a Close() has returned, every
\* record that entered the queue before cancel() appears exactly once in the
\* sink.
C4_DrainCompleteness ==
    \A l \in Loggers :
        (cancelled /\ closePc[l] = "returned")
        => \A i \in 1..Len(preCancel) : Count(preCancel[i], sink) = 1

\* Close() on the base logger has returned after a drain that found records
\* both in the queue and in the batch
C4_Witness ==
    /\ closePc["base"] = "returned"
    /\ drainFrom.queued
    /\ drainFrom.batched
    /\ Len(preCancel) >= 2

\* emits whose select has run
Attempts == calls - Cardinality({p \in Producers : pc[p] = "log"})

\* C5: every emit that reaches the enqueue step is either accepted into the
\* queue or dropped with exactly one diagnostic, never both; accepted plus
\* dropped equals the number of such emits; a dropped record is nowhere in the
\* pipeline; and a drop happens only when the queue is full.
C5_AcceptedOrDropped ==
    /\ [](Len(accepted) + Len(stderr) = Attempts)
    /\ [](Range(accepted) \cap Range(stderr) = {})
    /\ [](Cardinality(Range(stderr)) = Len(stderr))
    /\ [](Range(stderr) \cap (Ids(logChan) \cup Ids(batch) \cup Ids(sink)) = {})
    /\ [][stderr' # stderr => (Len(logChan) = QueueCap /\ logChan' = logChan)]_vars
    /\ [][\A p \in Producers :
            (pc[p] = "log" /\ pc'[p] # "log")
            => \/ /\ accepted' = Append(accepted, cur[p].id)
                  /\ logChan' = Append(logChan, cur[p])
                  /\ stderr' = stderr
               \/ /\ stderr' = Append(stderr, cur[p].id)
                  /\ accepted' = accepted
                  /\ logChan' = logChan]_vars

\* one record has been dropped, others were accepted and one reached the sink
C5_Witness ==
    /\ stderr # <<>>
    /\ Len(accepted) >= 2
    /\ sink # <<>>

\* C6: Close() on the base logger has returned only if the worker performed
\* its final flush and raised the completion signal; as long as cancel() has
\* not been called, a caller of Close() is still waiting.
C6_CloseWaitsForWorker ==
    /\ closePc["base"] = "returned"
       => /\ workerPc = "done"
          /\ batch = <<>>
          /\ wg["base"] = 0
          /\ cancelled
    /\ (~cancelled /\ closePc["base"] # "none") => closePc["base"] = "waiting"

\* Close() on the base logger has returned after a final flush that wrote
\* records
C6_Witness ==
    /\ closePc["base"] = "returned"
    /\ (drainFrom.queued \/ drainFrom.batched)
    /\ sink # <<>>

\* C7 as stated: after cancel(), a pending Close() eventually returns, on the
\* base logger and on every logger derived with With(); and the worker
\* terminates exactly once.
C7_CloseReturnsForEveryLogger ==
    /\ \A l \in Loggers :
          (cancelled /\ closePc[l] = "waiting") ~> (closePc[l] = "returned")
    /\ [](terminations <= 1)
    /\ (cancelled ~> (terminations = 1))

Records == Range(logChan) \cup Range(batch) \cup Range(sink)

\* C8 as stated: a record is handed to the enqueue step iff its severity is at
\* or above the threshold, nothing below the threshold is in the pipeline, and
\* an accepted emit of a Fatal-class method has its line in the sink when the
\* program has ended.
C8_ThresholdFiltering ==
    /\ skipped # "" => LevelOf(skipped) < cfgLevel
    /\ \A p \in Producers : cur[p] # NoRecord => LevelOf(cur[p].level) >= cfgLevel
    /\ \A r \in Records : LevelOf(r.level) >= cfgLevel
    /\ exited => \A p \in Producers :
                    (pc[p] = "exited" /\ cur[p].id \in Range(accepted))
                    => cur[p].id \in Ids(sink)

\* C9 as stated: Panic() is never a no-op, whatever the threshold, and the
\* call ends in the fault.
C9_PanicForEveryThreshold ==
    /\ skipped # "PANIC"
    /\ \A p \in Producers :
          cur[p].level = "PANIC" => pc[p] \in {"log", "post", "panicked"}

\* C9 amended: with the threshold at or below Panic, Panic() hands its record
\* to the enqueue step and then raises the fault, in production mode or not;
\* with the threshold at Fatal it builds no record and raises no fault.
C9_PanicAtOrBelowThreshold ==
    /\ [](skipped = "PANIC" => cfgLevel > PanicLevel)
    /\ [](\A p \in Producers :
            cur[p].level = "PANIC"
            => /\ cfgLevel <= PanicLevel
               /\ pc[p] \in {"log", "post", "panicked"}
               /\ pc[p] # "log"
                  => cur[p].id \in Range(accepted) \cup Range(stderr))
    /\ [][\A p \in Producers :
            (pc[p] = "post" /\ cur[p].level = "PANIC" /\ pc'[p] # "post")
            => pc'[p] = "panicked"]_vars

\* Panic() has raised its fault in production mode
C9_Witness ==
    \E p \in Producers :
        /\ pc[p] = "panicked"
        /\ cur[p].level = "PANIC"
        /\ isProduction

\* C10 as stated: DPanic() is never a no-op, and it ends in the fault exactly
\* outside production mode.
C10_DPanicFaultsIffNotProduction ==
    /\ skipped # "DPANIC"
    /\ \A p \in Producers :
          cur[p].level = "DPANIC"
          => /\ pc[p] \in {"log", "post", "panicked"}
             /\ pc[p] = "panicked" => ~isProduction

\* C10 amended: with the threshold at or below DPanic, DPanic() hands its
\* record to the enqueue step and then raises the fault iff the logger is not
\* in production mode, returning normally in production mode; with the
\* threshold at Panic or Fatal it builds no record and raises no fault.
C10_DPanicAtOrBelowThreshold ==
    /\ [](skipped = "DPANIC" => cfgLevel > DPanicLevel)
    /\ [](\A p \in Producers :
            cur[p].level = "DPANIC"
            => /\ cfgLevel <= DPanicLevel
               /\ pc[p] \in {"log", "post", "panicked"}
               /\ pc[p] = "panicked" => ~isProduction
               /\ pc[p] # "log"
                  => cur[p].id \in Range(accepted) \cup Range(stderr))
    /\ [][\A p \in Producers :
            (pc[p] = "post" /\ cur[p].level = "DPANIC" /\ pc'[p] # "post")
            => pc'[p] = (IF isProduction THEN "idle" ELSE "panicked")]_vars

\* DPanic() has raised its fault outside production mode
C10_Witness ==
    \E p \in Producers :
        /\ pc[p] = "panicked"
        /\ cur[p].level = "DPANIC"
        /\ ~isProduction

\* C16: the sink is written only with a non-empty batch (a tick that finds the
\* buffer empty writes nothing), every flush moves the whole buffer to the sink
\* and empties it, and whenever run is back at its select the buffer is shorter
\* than the bufferSize threshold.
C16_FlushPolicy ==
    /\ [](workerPc = "write" => batch # <<>>)
    /\ [][sink' # sink
          => (batch # <<>> /\ sink' = sink \o batch /\ batch' = <<>>)]_vars
    /\ [](workerPc = "select" => BatchLen(batch) < bufferSize)

\* run is at its select holding a batch under the threshold, after an earlier
\* flush
C16_Witness ==
    /\ workerPc = "select"
    /\ batch # <<>>
    /\ sink # <<>>

\* C19 as stated: when Close() on the base logger is about to return, every
\* record an emit has accepted so far is in the sink.
C19_AcceptedWrittenByShutdown ==
    (closePc["base"] = "waiting" /\ wg["base"] = 0)
    => Range(accepted) \subseteq Ids(sink)

\* C12: in sequential generations from a fresh process, generation k (counted
\* from 0) returns "01" exactly when k mod 100 = 0 and "00" otherwise, and the
\* counter grows by exactly one per generation, after the check.
C12_SampledEveryHundredth ==
    /\ [](genPc = "deferred"
          => /\ flag = (IF generations % 100 = 0 THEN "01" ELSE "00")
             /\ requests = generations)
    /\ [](genPc = "idle" => requests = generations)
    /\ [][requests' # requests
          => (genPc = "deferred" /\ requests' = requests + 1)]_vars

\* generation number 100 has returned "01" and its increment is pending
C12_Witness ==
    /\ genPc = "deferred"
    /\ generations = 100
    /\ flag = "01"

\* the three indexes and the counter describe the same tasks
Consistent ==
    /\ allTasksIDs = [i \in 1..counter |-> i]
    /\ DOMAIN tasksByID = 1..counter
    /\ \A id \in 1..counter :
          /\ tasksByID[id].id = id
          /\ Cardinality({<<st, k>> \in Statuses \X (1..counter) :
                             /\ k <= Len(tasksByStatus[st])
                             /\ tasksByStatus[st][k] = id}) = 1
          /\ id \in Range(tasksByStatus[tasksByID[id].status])
    /\ \A st \in Statuses : Range(tasksByStatus[st]) \subseteq 1..counter

\* C15: whenever a reader holds the read lock no Create is in progress and the
\* indexes are mutually consistent (ids 1..counter in increasing order, the
\* keys of tasksByID, each id in exactly one status list), and two Creates
\* never return the same id.
C15_IndexesConsistent ==
    /\ mu.readers # {} => (mu.writer = "" /\ Consistent)
    /\ \A g, h \in Goroutines :
          (g # h /\ result[g].kind = "created" /\ result[h].kind = "created")
          => result[g].tasks[1].id # result[h].tasks[1].id

\* two goroutines read concurrently after both have created a task
C15_Witness ==
    /\ mu.readers = Goroutines
    /\ counter >= 2
    /\ \E st \in Statuses : Len(tasksByStatus[st]) = 1

\* the tasks of ids[offset+1 .. offset+limit], as far as the list goes
Window(byID, ids, limit, offset) ==
    LET room == Len(ids) - offset
        n == IF limit < room THEN limit ELSE room
    IN  [k \in 1..n |-> byID[ids[offset + k]]]

\* C20 as stated: a GetAll call that holds the read lock returns without a
\* fault, and what it returns is the window of the matching list that starts
\* at offset and holds at most limit tasks.
C20_GetAllReturnsWindow ==
    \A g \in Goroutines :
        rpc[g] = "getAll"
        => LET r == GetAllBody(tasksByID, tasksByStatus, allTasksIDs,
                               rargs[g].filter, rargs[g].limit, rargs[g].offset)
               ids == IF rargs[g].filter # "" THEN tasksByStatus[rargs[g].filter]
                                            ELSE allTasksIDs
           IN  /\ r.kind = "tasks"
               /\ r.tasks = Window(tasksByID, ids, rargs[g].limit, rargs[g].offset)

\* the context fields of a logger
Ctx(l) == SliceOf(contextFields[l])

\* the loggers a derived logger descends from
RECURSIVE Ancestors(_)
Ancestors(c) ==
    IF c = "base" THEN {}
    ELSE {derivedFrom[c].parent} \cup Ancestors(derivedFrom[c].parent)

\* C11: a derived logger's context fields are its parent's followed by the
\* fields of its With() call, in call order; no With() and no emit changes the
\* context fields of a logger that exists; and a line built on a logger holds
\* that logger's context fields first and no field of a logger derived from it.
C11_CopyOnDerive ==
    /\ [](/\ Ctx("base") = <<>>
          /\ \A c \in loggers \ {"base"} :
                Ctx(c) = Ctx(derivedFrom[c].parent) \o derivedFrom[c].fields)
    /\ [][\A l \in loggers : Ctx(l)' = Ctx(l)]_vars
    /\ [](\A p \in Producers : line[p] # NoLine =>
             /\ Len(line[p].all) = Len(Ctx(line[p].logger)) + Len(line[p].fields)
             /\ SubSeq(line[p].all, 1, Len(Ctx(line[p].logger)))
                   = Ctx(line[p].logger)
             /\ \A c \in loggers :
                   line[p].logger \in Ancestors(c)
                   => Range(derivedFrom[c].fields) \cap Range(line[p].all) = {})

\* With(a,b) then With(c,d): d2 is derived from d1 with four context fields,
\* and lines have been built on the parent and on the child
C11_Witness ==
    /\ derivedFrom["d2"].parent = "d1"
    /\ Len(Ctx("d2")) = 4
    /\ \E p, q \in Producers : line[p].logger = "d1" /\ line[q].logger = "d2"

\* the complete pairs of a field list from pair j on: key=value for a string
\* key, the separating space alone for any other key
RECURSIVE PairsText(_, _)
PairsText(all, j) ==
    IF 2 * j > Len(all)
       THEN <<>>
       ELSE (IF all[2 * j - 1].kind = "string"
                THEN <<" ", all[2 * j - 1].s, "=", appendValue(all[2 * j])>>
                ELSE <<" ">>)
            \o PairsText(all, j + 1)

\* what a trailing element without a partner adds to the line
TrailingText(all) ==
    IF Len(all) % 2 = 0 THEN <<>>
    ELSE IF all[Len(all)].kind = "string"
            THEN <<" ", all[Len(all)].s, "=">>
            ELSE <<" ">>

\* C17 as stated: the line holds the complete pairs of the combined sequence
\* (key=value, in order, a pair with a non-string key skipped) and a trailing
\* unpaired element contributes nothing to it.
C17_TrailingElementDropped ==
    \A p \in Producers : line[p] # NoLine =>
        line[p].text = <<"INFO", " ", "msg">> \o PairsText(line[p].all, 1)
                          \o <<"\n">>

\* C17: the line holds the complete pairs in order (key=value, a pair with a
\* non-string key leaving only its separating space) and then, for a trailing
\* unpaired element, a space followed by key= with no value if the element is
\* a string, or the space alone if it is not.
C17_TrailingElementIsKey ==
    \A p \in Producers : line[p] # NoLine =>
        line[p].text = <<"INFO", " ", "msg">> \o PairsText(line[p].all, 1)
                          \o TrailingText(line[p].all) \o <<"\n">>

\* a line from context fields and call-site fields of odd combined length,
\* with a non-string key in a pair and a string as the trailing element
C17_Witness ==
    \E p \in Producers :
        /\ line[p].ctx # <<>>
        /\ line[p].fields # <<>>
        /\ Len(line[p].all) = 3
        /\ line[p].all[1].kind = "int"
        /\ line[p].all[3].kind = "string"

\* C18: every line built holds the logger's context fields followed by exactly
\* the call-site fields of its own call, and no emit changes the context
\* fields of the logger.
C18_OwnCallSiteFields ==
    \A p \in Producers : line[p] # NoLine =>
        /\ line[p].ctx = Ctx(line[p].logger)
        /\ line[p].all = line[p].ctx \o line[p].fields

\* the ids of the records a request built, in the order it built them
ReqIds(p) ==
    SelectSeq([i \in 1..Len(tags) |-> i], LAMBDA id : tags[id].req = p)

\* the ids of the request's records in the sink, in sink order
SinkOf(p) == SelectSeq(SinkIds, LAMBDA id : tags[id].req = p)

\* C13 as stated: "request started" has passed the enqueue step before the
\* handler runs and "request completed" is built only after it returned; every
\* record of the request carries the request's traceparent; with no record of
\* the request dropped, the sink holds the request's records in the order they
\* were built, and once the request is over and shutdown has completed it holds
\* all of them: "request started", the handler's records, "request completed".
C13_RequestRecordsInSink ==
    \A p \in Producers :
        LET ids == ReqIds(p)
            noDrops == Range(ids) \cap Range(stderr) = {}
        IN  /\ (reqPc[p] = "handler" /\ ctxLogger[p].kind # "")
               => \E id \in Range(accepted) \cup Range(stderr) :
                     /\ tags[id].req = p
                     /\ tags[id].msg = "request started"
            /\ (\E id \in Range(ids) : tags[id].msg = "request completed")
               => reqPc[p] = "done"
            /\ \A id \in Range(ids) :
                  SubSeq(tags[id].ctx, 1, 2) = <<"traceparent", traceparent[p]>>
            /\ noDrops => SinkOf(p) = SubSeq(ids, 1, Len(SinkOf(p)))
            /\ (/\ noDrops
                /\ reqPc[p] = "done"
                /\ pc[p] = "idle"
                /\ ctxLogger[p].kind # ""
                /\ closePc["base"] = "returned")
               => /\ SinkOf(p) = ids
                  /\ tags[ids[1]].msg = "request started"
                  /\ tags[ids[Len(ids)]].msg = "request completed"

\* C14: a handler whose context has no logger attached holds the no-op logger,
\* and stays with it whatever it calls; each of its calls on that logger
\* (every emit method, With, Close) leaves the queue, the batch, the sink and
\* the error stream as they were, builds no record, raises no fault and does
\* not end the process; and no such call ever has to wait.
C14_NoOpLoggerDoesNothing ==
    /\ [](\A p \in Producers :
             (reqPc[p] \in {"handler", "done"} /\ ctxLogger[p].kind = "")
             => hlog[p] = NewNoOpLogger)
    /\ [][\A p \in Producers :
             (ctxLogger[p].kind = "" /\ hcalls'[p] # hcalls[p])
             => /\ UNCHANGED <<logChan, batch, sink, stderr, calls, accepted,
                              exited, tags>>
                /\ pc'[p] = "idle"
                /\ hlog'[p] = hlog[p]]_vars
    /\ [](\A p \in Producers :
             (/\ reqPc[p] = "handler"
              /\ ctxLogger[p].kind = ""
              /\ hcalls[p] < MaxHandlerCalls
              /\ ~exited)
             => \A op \in LoggerOps : ENABLED LoggerCall(p, op))

\* the handler without a logger has made its calls while the writer holds
\* records of a request
C14_Witness ==
    \E p \in Producers :
        /\ ctxLogger[p].kind = ""
        /\ hlog[p] = NewNoOpLogger
        /\ hcalls[p] = MaxHandlerCalls
        /\ logChan # <<>>
        /\ sink # <<>>

====
